---- MODULE Spec2Model ----
(***************************************************************************)
(* Model of src/MWF.py: the closed-form 2x2 inverter `invert` and the      *)
(* multichannel Wiener filter `MWF`.                                       *)
(*                                                                         *)
(* Numbers.  numpy computes in complex floating point.  The model computes *)
(* in exact complex rationals (re + i*im)/d with d > 0, so every identity  *)
(* it checks is the "within tolerance" identity of the floating-point      *)
(* program with the rounding removed.  A number with d = 0 is the          *)
(* non-finite value (numpy's inf or nan): a division by zero yields it and *)
(* every operation on it yields it again.                                  *)
(*                                                                         *)
(* Indices.  Python's 0-based axes are 1-based here: channels 1..I,        *)
(* frequency bins 1..F, frames 1..T, samples 1..N.                         *)
(***************************************************************************)
EXTENDS Integers, Sequences, FiniteSets, TLC

(***************************************************************************)
(* Bounds of the model.                                                    *)
(***************************************************************************)
\* longest track, in samples (the shortest has one full window, nfft samples)
MaxN == 2
\* largest number of entries of track.sources
MaxSources == 2

(***************************************************************************)
(* Exact complex rationals with one non-finite value.                      *)
(***************************************************************************)
Abs(n) == IF n < 0 THEN -n ELSE n

\* TLC builds [x \in S |-> e] lazily and re-evaluates e at every application;
\* the comparison makes it build the array once
Force(r) == IF r = r THEN r ELSE r

RECURSIVE GCD(_, _)
GCD(a, b) == IF b = 0 THEN a ELSE GCD(b, a % b)

NaN == [re |-> 0, im |-> 0, d |-> 0]

Finite(z) == z.d # 0

Norm(re, im, d) ==
  IF d = 0 THEN NaN
  ELSE LET g == GCD(GCD(Abs(re), Abs(im)), Abs(d))
           s == IF d < 0 THEN -1 ELSE 1
       IN  [re |-> (s * re) \div g, im |-> (s * im) \div g, d |-> (s * d) \div g]

Rat(n, d) == Norm(n, 0, d)
Cplx(re, im) == Norm(re, im, 1)
Zero == Rat(0, 1)
One == Rat(1, 1)

IsZero(z) == Finite(z) /\ z.re = 0 /\ z.im = 0

\* the products are reduced before they are formed, to keep integers small
CAdd(a, b) ==
  IF ~Finite(a) \/ ~Finite(b) THEN NaN
  ELSE LET g == GCD(a.d, b.d)
           ka == b.d \div g
           kb == a.d \div g
       IN  Norm(a.re * ka + b.re * kb, a.im * ka + b.im * kb, a.d * ka)

CNeg(a) == IF ~Finite(a) THEN NaN ELSE [re |-> -a.re, im |-> -a.im, d |-> a.d]

CSub(a, b) == CAdd(a, CNeg(b))

CMul(a, b) ==
  IF ~Finite(a) \/ ~Finite(b) THEN NaN
  ELSE LET ga == GCD(GCD(Abs(a.re), Abs(a.im)), b.d)
           gb == GCD(GCD(Abs(b.re), Abs(b.im)), a.d)
           ar == a.re \div ga
           ai == a.im \div ga
           br == b.re \div gb
           bi == b.im \div gb
       IN  Norm(ar * br - ai * bi, ar * bi + ai * br, (a.d \div gb) * (b.d \div ga))

\* 1 / b for finite non-zero b
CInv(b) ==
  IF b.im = 0 THEN Norm(b.d, 0, b.re)
  ELSE LET g == GCD(GCD(Abs(b.re), Abs(b.im)), b.d)
           br == b.re \div g
           bi == b.im \div g
       IN  Norm(br * (b.d \div g), -bi * (b.d \div g), br * br + bi * bi)

\* numpy's true division: x / 0 is inf or nan (a warning, never an exception)
CDiv(a, b) ==
  IF ~Finite(a) \/ ~Finite(b) \/ IsZero(b) THEN NaN
  ELSE CMul(a, CInv(b))

Conj(a) == IF ~Finite(a) THEN NaN ELSE [re |-> a.re, im |-> -a.im, d |-> a.d]

Real(a) == IF ~Finite(a) THEN NaN ELSE Norm(a.re, 0, a.d)

\* |a|^2
Abs2(a) == Real(CMul(a, Conj(a)))

RECURSIVE CSum(_)
CSum(s) == IF s = << >> THEN Zero ELSE CAdd(Head(s), CSum(Tail(s)))

\* np.mean over one axis
CMean(s) == CDiv(CSum(s), Rat(Len(s), 1))

(***************************************************************************)
(* Program constants.                                                      *)
(***************************************************************************)
\* number of channels (the closed-form inverse fixes it at 2)
I == 2

\* STFT window length.  The source sets 2048; the model instantiates the
\* transform at the shortest window that still has two frequency bins, so
\* that the tensors stay small.
nfft == 2

\* number of one-sided frequency bins of the transform
F == nfft \div 2 + 1

\* np.finfo(np.float).eps, 2^-52 in the source; a positive rational here
eps == Rat(1, 4)

Chan == 1..I
Freq == 1..F

(***************************************************************************)
(* invert: closed-form inverse of a 2x2 matrix, regularised by eps.        *)
(***************************************************************************)
Det(M) == CSub(CMul(M[1][1], M[2][2]), CMul(M[1][2], M[2][1]))

invert_no_eps(M, e) ==
  LET invDet == CDiv(One, Det(M))
  IN  << << CMul(invDet, M[2][2]), CNeg(CMul(invDet, M[1][2])) >>,
         << CNeg(CMul(invDet, M[2][1])), CMul(invDet, M[1][1]) >> >>

invert_transposed(M, e) ==
  LET invDet == CDiv(One, CAdd(e, Det(M)))
  IN  << << CMul(invDet, M[2][2]), CNeg(CMul(invDet, M[2][1])) >>,
         << CNeg(CMul(invDet, M[1][2])), CMul(invDet, M[1][1]) >> >>

invert(M, e) ==
  LET invDet == CDiv(One, CAdd(e, Det(M)))
  IN  << << CMul(invDet, M[2][2]), CNeg(CMul(invDet, M[1][2])) >>,
         << CNeg(CMul(invDet, M[2][1])), CMul(invDet, M[1][1]) >> >>

\* 2x2 helpers used to state the properties
MatMul(A, B) ==
  Force(
  [i1 \in Chan |-> [i2 \in Chan |->
     CSum([i3 \in Chan |-> CMul(A[i1][i3], B[i3][i2])])]])

MatScale(c, A) == Force([i1 \in Chan |-> [i2 \in Chan |-> CMul(c, A[i1][i2])]])

Eye == << <<One, Zero>>, <<Zero, One>> >>

MatFinite(A) == \A i1 \in Chan : \A i2 \in Chan : Finite(A[i1][i2])

(***************************************************************************)
(* Transform.  scipy.signal.stft(x, nperseg=nfft) with its defaults        *)
(* (periodic Hann window, half-window overlap, zero padding of half a      *)
(* window at both ends, one-sided spectrum) and scipy.signal.istft.  At    *)
(* nperseg = 2 the window is [0, 1] and its scaling 1, so frame t holds    *)
(* the one sample t (zero in the last, padding-only frame) and the two     *)
(* bins of its length-2 real FFT are s and -s.  istft takes the real       *)
(* inverse FFT, overlap-adds and trims the padding.                        *)
(***************************************************************************)
Min(a, b) == IF a < b THEN a ELSE b

\* hop between frames: nperseg - noverlap, noverlap = nperseg // 2
nstep == nfft - nfft \div 2

\* number of frames scipy returns for a signal of n samples
NFrames(n) == (n + nstep - 1) \div nstep + 1

\* x[n][c] (samples x channels); stft(x.T)[-1] has shape (I, F, T)
stft(x) ==
  Force(
  [c \in Chan |-> [f \in Freq |-> [t \in 1..NFrames(Len(x)) |->
     LET s == IF t <= Len(x) THEN x[t][c] ELSE Zero
     IN  IF f = 1 THEN s ELSE CNeg(s)]]])

\* istft(Y)[1]: shape (I, L) with L = (T - 1) * nstep real samples
istft(Y) ==
  Force(
  [c \in Chan |-> [n \in 1..((Len(Y[c][1]) - 1) * nstep) |->
     CDiv(Real(CSub(Y[c][1][n], Y[c][2][n])), Rat(2, 1))]])

(***************************************************************************)
(* Source statistics (MWF, first loop).                                    *)
(***************************************************************************)
NumFrames(Y) == Len(Y[1][1])

\* 1/ observed covariance Rjj[f][t][i1][i2]
ObservedCov(Yj) ==
  Force(
  [f \in Freq |-> [t \in 1..NumFrames(Yj) |-> [i1 \in Chan |-> [i2 \in Chan |->
     CMul(Yj[i1][f][t], Conj(Yj[i2][f][t]))]]]])

\* 2/ naive PSD: mean over channels of |Yj|^2
NaivePSD(Yj) ==
  Force(
  [f \in Freq |-> [t \in 1..NumFrames(Yj) |->
     CMean([c \in Chan |-> Abs2(Yj[c][f][t])])]])

\* 3/ mean over frames of Rjj / (eps + P)
RawSpatialCov(Rjj, P0) ==
  Force(
  [f \in Freq |-> [i1 \in Chan |-> [i2 \in Chan |->
     CMean([t \in 1..Len(Rjj[f]) |->
        CDiv(Rjj[f][t][i1][i2], CAdd(eps, P0[f][t]))])]]])

\* np.trace(A) of a 3-d array A[f][i1][i2]: numpy's default axes are the
\* first two, so the result is indexed by the last axis
np_trace(A) ==
  Force(
  [c \in Chan |-> CSum([k \in 1..Min(F, I) |-> A[k][k][c]])])

\* R * I / np.trace(R) + eps * eye, the division broadcast over the last axis
Regularize(Rraw) ==
  LET tr == np_trace(Rraw)
  IN  Force([f \in Freq |-> [i1 \in Chan |-> [i2 \in Chan |->
         CAdd(CDiv(CMul(Rraw[f][i1][i2], Rat(I, 1)), tr[i2]),
              CMul(eps, Eye[i1][i2]))]]])

\* the channel pairs in itertools.product order
ChanPairs == << <<1, 1>>, <<1, 2>>, <<2, 1>>, <<2, 2>> >>

\* 4/ refined PSD
RefinedPSD(Rj_inv, Rjj) ==
  Force(
  [f \in Freq |-> [t \in 1..Len(Rjj[f]) |->
     CSum([q \in 1..Len(ChanPairs) |->
        CMul(Rat(1, I),
             Real(CMul(Rj_inv[f][ChanPairs[q][1]][ChanPairs[q][2]],
                       Rjj[f][t][ChanPairs[q][2]][ChanPairs[q][1]])))])]])

\* the statistics of one source: its R and its P
SourceStats(audio) ==
  LET Yj  == stft(audio)
      Rjj == ObservedCov(Yj)
      Rj  == Regularize(RawSpatialCov(Rjj, NaivePSD(Yj)))
      Rj_inv == Force([f \in Freq |-> invert(Rj[f], eps)])
  IN  [R |-> Rj, P |-> RefinedPSD(Rj_inv, Rjj)]

(***************************************************************************)
(* Mixture covariance, gain, separation.                                   *)
(***************************************************************************)
\* Cxx += P[name][..., None, None] * R[name][:, None, ...] over the sources
MixCov(Pm, Rm, names, nT) ==
  Force(
  [f \in Freq |-> [t \in 1..nT |-> [i1 \in Chan |-> [i2 \in Chan |->
     CSum([q \in 1..Len(names) |->
        CMul(Pm[names[q]][f][t], Rm[names[q]][f][i1][i2])])]]]])

WienerGain_swapped(Pn, Rn, iC) ==
  Force(
  [f \in Freq |-> [t \in 1..Len(Pn[f]) |-> [i1 \in Chan |-> [i2 \in Chan |->
     CSum([i3 \in Chan |->
        CMul(CMul(Pn[f][t], Rn[f][i1][i3]), iC[f][t][i2][i3])])]]]])

\* G[..., i1, i2] += SR[..., i1, i3] * invCxx[..., i3, i2]
WienerGain(Pn, Rn, iC) ==
  Force(
  [f \in Freq |-> [t \in 1..Len(Pn[f]) |-> [i1 \in Chan |-> [i2 \in Chan |->
     CSum([i3 \in Chan |->
        CMul(CMul(Pn[f][t], Rn[f][i1][i3]), iC[f][t][i3][i2])])]]]])

\* Yj += G[..., i] * X[i, ..., None], then the channel axis rolled first
ApplyGain(G, Xm) ==
  Force(
  [o \in Chan |-> [f \in Freq |-> [t \in 1..Len(G[f]) |->
     CSum([i \in Chan |-> CMul(G[f][t][o][i], Xm[i][f][t])])]]])

\* istft(Yj)[1].T[:N, :]
ToTime(Yj, n) ==
  LET y == istft(Yj)
  IN  Force([s \in 1..Min(n, Len(y[1])) |-> [c \in Chan |-> y[c][s]]])

\* the time-domain estimate of one source
WienerEstimate(Pn, Rn, iC, Xm, n) == ToTime(ApplyGain(WienerGain(Pn, Rn, iC), Xm), n)

(***************************************************************************)
(* Python values: the int 0 and references to numpy arrays on the heap.    *)
(* An array is a sequence of samples, each a sequence of I numbers.        *)
(***************************************************************************)
IntZero == [kind |-> "int", ref |-> 0]
ArrayRef(r) == [kind |-> "array", ref |-> r]

\* elementwise a + b of two arrays of the same shape
ArrAdd(a, b) ==
  Force([s \in 1..Len(a) |-> [c \in 1..Len(a[s]) |-> CAdd(a[s][c], b[s][c])]])

\* 0 + b: the int broadcast over the array
ZeroPlus(b) ==
  Force([s \in 1..Len(b) |-> [c \in 1..Len(b[s]) |-> CAdd(Zero, b[s][c])]])

IAdd_aliasing(acc, ref, h) ==
  IF acc.kind = "int"
  THEN [acc |-> ArrayRef(ref), heap |-> h]
  ELSE [acc |-> acc, heap |-> [h EXCEPT ![acc.ref] = ArrAdd(h[acc.ref], h[ref])]]

\* accompaniment_source += target_estimate.  On the int 0 Python evaluates
\* 0 + array, a new array; on an array numpy adds in place.
IAdd(acc, ref, h) ==
  IF acc.kind = "int"
  THEN [acc |-> ArrayRef(Len(h) + 1), heap |-> Append(h, ZeroPlus(h[ref]))]
  ELSE [acc |-> acc, heap |-> [h EXCEPT ![acc.ref] = ArrAdd(h[acc.ref], h[ref])]]

\* if name != 'vocals'
Accumulates(name) == name # "vocals"

(***************************************************************************)
(* Inputs.                                                                 *)
(***************************************************************************)
\* source names a track may carry
Names == {"vocals", "drums", "accompaniment"}

\* one sample of stereo audio
Frame(l, r) == << Rat(l, 1), Rat(r, 1) >>

\* a signal of n samples that alternates between two frames
Alternating(fr, n) == [t \in 1..n |-> IF t % 2 = 1 THEN fr[1] ELSE fr[2]]

\* reference signals of a source: silent; centred; off centre; hard left
\* and hard right in turn
SourcePatterns ==
  { << Frame(0, 0), Frame(0, 0) >>,
    << Frame(1, 1), Frame(1, 1) >>,
    << Frame(2, 1), Frame(2, 1) >>,
    << Frame(1, 0), Frame(0, 1) >> }

\* signals of the mixture
MixPatterns ==
  { << Frame(1, 1), Frame(1, 2) >> }

Audios(n) == { Alternating(fr, n) : fr \in SourcePatterns }

\* track.sources: an ordered mapping, its names distinct
SourceMaps(n) ==
  UNION { { m \in [1..len -> [name : Names, audio : Audios(n)]] :
              \A a \in 1..len : \A b \in 1..len : m[a].name = m[b].name => a = b }
          : len \in 1..MaxSources }

\* mixture and sources share the sample count, at least one window long
Tracks ==
  UNION { [audio : { Alternating(fr, n) : fr \in MixPatterns }, sources : SourceMaps(n)]
          : n \in nfft..MaxN }

\* arguments of the calls of invert that are checked on their own
Entries == { Zero, One, CNeg(One), Cplx(0, 1), Cplx(1, 1), Cplx(1, -1), Rat(1, 2) }
Matrices == { << <<a, b>>, <<c, d>> >> : a \in Entries, b \in Entries, c \in Entries, d \in Entries }
EpsValues == { Zero, Rat(1, 4), One, Rat(2, 1) }

(***************************************************************************)
(* State.                                                                  *)
(***************************************************************************)
VARIABLES
  track,                \* the argument of MWF: audio and sources
  pc,                   \* position in MWF
  N,                    \* number of samples
  X,                    \* STFT of the mixture
  P,                    \* name -> PSD
  R,                    \* name -> spatial covariance
  Cxx,                  \* mixture covariance
  invCxx,               \* its regularised inverse
  k,                    \* number of sources the current loop has processed
  estimates,            \* name -> Python value
  accompaniment_source, \* Python value
  heap,                 \* the arrays estimates and accompaniment_source refer to
  evaluated,            \* estimates were passed to museval.eval_mus_track
  call                  \* a call of invert on its own

vars == << track, pc, N, X, P, R, Cxx, invCxx, k, estimates,
           accompaniment_source, heap, evaluated, call >>

NoCall == [st |-> "none", M |-> << >>, e |-> Zero, out |-> << >>]

SourceNames == [q \in 1..Len(track.sources) |-> track.sources[q].name]

Init ==
  /\ track \in Tracks
  /\ pc = "start"
  /\ N = 0
  /\ X = << >>
  /\ P = << >>
  /\ R = << >>
  /\ Cxx = << >>
  /\ invCxx = << >>
  /\ k = 0
  /\ estimates = << >>
  /\ accompaniment_source = IntZero
  /\ heap = << >>
  /\ evaluated = FALSE
  /\ call = NoCall

\* lines 36-42
Start ==
  /\ pc = "start"
  /\ N' = Len(track.audio)
  /\ X' = stft(track.audio)
  /\ P' = << >>
  /\ R' = << >>
  /\ k' = 0
  /\ pc' = "stats"
  /\ UNCHANGED << track, Cxx, invCxx, estimates, accompaniment_source, heap,
                  evaluated, call >>

\* one iteration of the loop of lines 43-83
EstimateSource ==
  /\ pc = "stats"
  /\ k < Len(track.sources)
  /\ LET src == track.sources[k + 1]
         st  == SourceStats(src.audio)
     IN  /\ P' = (src.name :> st.P) @@ P
         /\ R' = (src.name :> st.R) @@ R
  /\ k' = k + 1
  /\ UNCHANGED << track, pc, N, X, Cxx, invCxx, estimates, accompaniment_source,
                  heap, evaluated, call >>

\* lines 87-96, once the first loop is over
MixCovariance ==
  /\ pc = "stats"
  /\ k = Len(track.sources)
  /\ LET C == MixCov(P, R, SourceNames, NumFrames(X))
     IN  /\ Cxx' = C
         /\ invCxx' = Force([f \in Freq |-> [t \in 1..NumFrames(X) |-> invert(C[f][t], eps)]])
  /\ estimates' = << >>
  /\ accompaniment_source' = IntZero
  /\ k' = 0
  /\ pc' = "separate"
  /\ UNCHANGED << track, N, X, P, R, heap, evaluated, call >>

\* one iteration of the loop of lines 97-119
SeparateSource ==
  /\ pc = "separate"
  /\ k < Len(track.sources)
  /\ LET name  == track.sources[k + 1].name
         ref   == Len(heap) + 1
         heap1 == Append(heap, WienerEstimate(P[name], R[name], invCxx, X, N))
         sum   == IF Accumulates(name)
                  THEN IAdd(accompaniment_source, ref, heap1)
                  ELSE [acc |-> accompaniment_source, heap |-> heap1]
     IN  /\ estimates' = (name :> ArrayRef(ref)) @@ estimates
         /\ accompaniment_source' = sum.acc
         /\ heap' = sum.heap
  /\ k' = k + 1
  /\ UNCHANGED << track, pc, N, X, P, R, Cxx, invCxx, evaluated, call >>

\* line 121, once the second loop is over
StoreAccompaniment ==
  /\ pc = "separate"
  /\ k = Len(track.sources)
  /\ estimates' = ("accompaniment" :> accompaniment_source) @@ estimates
  /\ pc' = "eval"
  /\ UNCHANGED << track, N, X, P, R, Cxx, invCxx, k, accompaniment_source, heap,
                  evaluated, call >>

\* lines 123-128 when eval_dir is given.  eval_dir is read nowhere else, so
\* the caller's choice of it is made here.
Evaluate ==
  /\ pc = "eval"
  /\ evaluated' = TRUE
  /\ pc' = "return"
  /\ UNCHANGED << track, N, X, P, R, Cxx, invCxx, k, estimates,
                  accompaniment_source, heap, call >>

\* line 130, directly when eval_dir is None
Return ==
  /\ pc \in {"eval", "return"}
  /\ pc' = "done"
  /\ UNCHANGED << track, N, X, P, R, Cxx, invCxx, k, estimates,
                  accompaniment_source, heap, evaluated, call >>

Next ==
  \/ Start
  \/ EstimateSource
  \/ MixCovariance
  \/ SeparateSource
  \/ StoreAccompaniment
  \/ Evaluate
  \/ Return

Spec == Init /\ [][Next]_vars

(***************************************************************************)
(* invert called on its own, on every matrix and eps of a bounded set.     *)
(***************************************************************************)
InitInvert ==
  /\ track = [audio |-> << >>, sources |-> << >>]
  /\ pc = "off"
  /\ N = 0
  /\ X = << >>
  /\ P = << >>
  /\ R = << >>
  /\ Cxx = << >>
  /\ invCxx = << >>
  /\ k = 0
  /\ estimates = << >>
  /\ accompaniment_source = IntZero
  /\ heap = << >>
  /\ evaluated = FALSE
  /\ call \in [st : {"called"}, M : Matrices, e : EpsValues, out : {<< >>}]

InvertCall ==
  /\ call.st = "called"
  /\ call' = [call EXCEPT !.out = invert(call.M, call.e), !.st = "returned"]
  /\ UNCHANGED << track, pc, N, X, P, R, Cxx, invCxx, k, estimates,
                  accompaniment_source, heap, evaluated >>

NextInvert == InvertCall

SpecInvert == InitInvert /\ [][NextInvert]_vars

(***************************************************************************)
(* Views of the state used by the properties.                              *)
(***************************************************************************)
\* the value is a signal of n samples by I channels
IsSignal(v, n) ==
  /\ v.kind = "array"
  /\ Len(heap[v.ref]) = n
  /\ \A s \in 1..n : Len(heap[v.ref][s]) = I

ArrFinite(a) == \A s \in 1..Len(a) : \A c \in 1..Len(a[s]) : Finite(a[s][c])

ValueFinite(v) == v.kind = "array" => ArrFinite(heap[v.ref])

\* the estimate MWF computes for a source from the statistics
OwnEstimate(name) == WienerEstimate(P[name], R[name], invCxx, X, N)

\* the names of the sources that are not the lead vocals, in mapping order
NonVocals == SelectSeq(SourceNames, LAMBDA n : n # "vocals")

\* a1 + a2 + ... of the arrays the mapping holds under the given names
RECURSIVE SumOfEstimates(_)
SumOfEstimates(names) ==
  IF Len(names) = 1 THEN heap[estimates[names[1]].ref]
  ELSE ArrAdd(SumOfEstimates(SubSeq(names, 1, Len(names) - 1)),
              heap[estimates[names[Len(names)]].ref])

Returned == pc = "done"
LoopsDone == pc = "separate" /\ k = Len(track.sources)

(***************************************************************************)
(* C1.  Every value of the returned mapping, the one under                 *)
(* 'accompaniment' included, is a signal of N samples by I channels, also  *)
(* when the only source is 'vocals'.  The code breaks it: with no          *)
(* non-vocal source the accompaniment is the int 0.                        *)
(***************************************************************************)
C1_EveryEstimateHasMixtureShape ==
  Returned =>
    \A key \in DOMAIN estimates : IsSignal(estimates[key], Len(track.audio))

(***************************************************************************)
(* C2.  On return, estimates['accompaniment'] is the elementwise sum of    *)
(* estimates[name] over the source names other than 'vocals'.  The code    *)
(* breaks it when a source is itself named 'accompaniment' (see C3).       *)
(***************************************************************************)
C2_AccompanimentIsSumOfNonVocals ==
  Returned =>
    IF NonVocals = << >>
    THEN estimates["accompaniment"] = IntZero
    ELSE /\ estimates["accompaniment"].kind = "array"
         /\ heap[estimates["accompaniment"].ref] = SumOfEstimates(NonVocals)

(***************************************************************************)
(* C3.  The returned keys are the source names plus 'accompaniment', and   *)
(* each source name maps to that source's own Wiener estimate.  The code   *)
(* breaks it: line 121 overwrites the estimate of a source named           *)
(* 'accompaniment'.                                                        *)
(***************************************************************************)
C3_KeysAndOwnEstimates ==
  Returned =>
    /\ DOMAIN estimates = {SourceNames[q] : q \in 1..Len(SourceNames)} \cup {"accompaniment"}
    /\ \A q \in 1..Len(SourceNames) :
         /\ estimates[SourceNames[q]].kind = "array"
         /\ heap[estimates[SourceNames[q]].ref] = OwnEstimate(SourceNames[q])

(***************************************************************************)
(* Views of a call of invert.                                              *)
(***************************************************************************)
InvertReturned == call.st = "returned"

\* eps + M00*M11 - M01*M10, the denominator of line 14
Denominator == CAdd(call.e, Det(call.M))

Positive(e) == Finite(e) /\ e.im = 0 /\ e.re > 0

Singular(M) == CMul(M[1][1], M[2][2]) = CMul(M[1][2], M[2][1])

\* the entries of the claim: M11, -M10, -M01, M00 in the places 00, 10, 01, 11
Adjugate(M) == << << M[2][2], CNeg(M[1][2]) >>, << CNeg(M[2][1]), M[1][1] >> >>

(***************************************************************************)
(* C4 as stated.  invert(M, 0) times M is the identity for invertible M,   *)
(* and for EVERY M and eps the returned matrix scaled by the denominator,  *)
(* times M, is det(M) times the identity.  The second part fails where     *)
(* the denominator is zero: the returned entries are then non-finite.      *)
(***************************************************************************)
C4_ScaledInverseForEveryM ==
  InvertReturned =>
    /\ (call.e = Zero /\ ~IsZero(Det(call.M))) => MatMul(call.out, call.M) = Eye
    /\ MatMul(MatScale(Denominator, call.out), call.M) = MatScale(Det(call.M), Eye)

(***************************************************************************)
(* C4 amended.  invert(M, 0) times M is the identity for invertible M; for *)
(* every M and eps whose denominator eps + det(M) is not zero, the         *)
(* returned matrix scaled by the denominator is the adjugate, placed as    *)
(* inv00 = M11, inv10 = -M10, inv01 = -M01, inv11 = M00, and times M it is *)
(* det(M) times the identity.                                              *)
(***************************************************************************)
C4_ScaledInverseWhereDefined ==
  InvertReturned =>
    /\ (call.e = Zero /\ ~IsZero(Det(call.M))) => MatMul(call.out, call.M) = Eye
    /\ ~IsZero(Denominator) =>
         /\ MatScale(Denominator, call.out) = Adjugate(call.M)
         /\ MatMul(MatScale(Denominator, call.out), call.M) = MatScale(Det(call.M), Eye)

\* an invertible, non-symmetric matrix inverted with eps = 0
C4_Witness ==
  /\ InvertReturned
  /\ call.e = Zero
  /\ ~IsZero(Det(call.M))
  /\ call.M[1][2] # call.M[2][1]
  /\ MatMul(call.out, call.M) = Eye

SumOfGains ==
  LET G == Force([q \in 1..Len(SourceNames) |->
                    WienerGain(P[SourceNames[q]], R[SourceNames[q]], invCxx)])
  IN  Force([f \in Freq |-> [t \in 1..NumFrames(X) |-> [i1 \in Chan |-> [i2 \in Chan |->
         CSum([q \in 1..Len(SourceNames) |-> G[q][f][t][i1][i2]])]]]])

Bins == { <<f, t>> : f \in Freq, t \in 1..NumFrames(X) }

\* the spatial covariance np.trace sees at line 67, before it is regularised
RawCovOf(audio) ==
  RawSpatialCov(ObservedCov(stft(audio)), NaivePSD(stft(audio)))

C7_UnitTraceAndHermitian ==
  \A name \in DOMAIN R : \A f \in Freq :
    MatFinite(R[name][f]) =>
      /\ CAdd(CSub(R[name][f][1][1], eps), CSub(R[name][f][2][2], eps)) = Rat(I, 1)
      /\ \A i1 \in Chan : \A i2 \in Chan : R[name][f][i1][i2] = Conj(R[name][f][i2][i1])

(***************************************************************************)
(* C8.  MWF never returns, nor hands to the evaluation, estimates that     *)
(* hold a NaN or an infinite value.  The code breaks it: nothing in MWF    *)
(* looks for non-finite values.                                            *)
(***************************************************************************)
C8_NoNonFiniteEstimateLeaves ==
  (Returned \/ evaluated) =>
    \A key \in DOMAIN estimates : ValueFinite(estimates[key])

(***************************************************************************)
(* C9.  No division of the statistics estimator has a zero denominator,    *)
(* also for a silent source or a zero trace.  The code breaks it: line 67  *)
(* divides by np.trace(R[name]) with no eps added.                         *)
(***************************************************************************)
C9_NoZeroDenominator ==
  pc = "stats" =>
    \A q \in 1..k :
      LET audio == track.sources[q].audio
      IN  /\ \A f \in Freq : \A t \in 1..NumFrames(X) :
               ~IsZero(CAdd(eps, NaivePSD(stft(audio))[f][t]))
          /\ \A c \in Chan : ~IsZero(np_trace(RawCovOf(audio))[c])

(***************************************************************************)
(* C10.  Accumulating into the accompaniment changes no estimate already   *)
(* stored: during and after the separation loop every stored estimate is   *)
(* the value computed for its source, and the accompaniment shares no      *)
(* storage with any of them.                                               *)
(***************************************************************************)
C10_AccumulationKeepsEstimates ==
  pc = "separate" =>
    \A q \in 1..k :
      LET name == SourceNames[q]
      IN  /\ estimates[name].kind = "array"
          /\ heap[estimates[name].ref] = OwnEstimate(name)
          /\ accompaniment_source.kind = "array" =>
               accompaniment_source.ref # estimates[name].ref

\* two non-vocal sources were accumulated, the first of them processed
\* first, and the second one's estimate is finite and not zero
C10_Witness ==
  /\ LoopsDone
  /\ Len(NonVocals) >= 2
  /\ SourceNames[1] # "vocals"
  /\ ArrFinite(heap[estimates[NonVocals[2]].ref])
  /\ ~IsZero(heap[estimates[NonVocals[2]].ref][1][1])
  /\ heap[estimates[NonVocals[1]].ref] = OwnEstimate(NonVocals[1])
  /\ heap[accompaniment_source.ref] = SumOfEstimates(NonVocals)

====
